---- MODULE Spec2Model ----
(***************************************************************************)
(* TvTumbler feed pipeline: the resolution run of tvtumbler/feeder.py, the *)
(* refresh cache of tvtumbler/feeders/base.py (BaseFeeder) and the entry   *)
(* parsers of TorrentFeeder and ShowRSSFeeder.                             *)
(***************************************************************************)
EXTENDS Integers, Sequences, FiniteSets, TLC

VARIABLES
    \* ---- feeder.run ----
    latest_downloadables,   \* the priority-ordered list returned by feeders.get_latest()
    wanted_dict,            \* key -> (quality -> Downloadable)
    run_pc,                 \* "idle" | "index" | "dispatch" | "done"
    w_idx,                  \* position of the next element of `wanted` to index
    pending,                \* keys of wanted_dict the dispatch loop has not visited yet
    downloads,              \* the calls made to downloaders.download, in order
    \* ---- one call of _parse_rss_item ----
    item,                   \* the feed entry handed to the parser
    parser,                 \* the class whose _parse_rss_item is called
    parse_pc,               \* "idle" | "call" | "returned" | "raised"
    parsed,                 \* the return value: << >> for None, <<torrent>> otherwise
    probe,                  \* what the call did on the way: the entry as passed, the
                            \* URLs collected before the info-hash step, urls after
                            \* line 172, the value the super() call returned
    \* ---- one adapter (BaseFeeder state of a ShowRSSFeeder) and the clock ----
    now,                    \* datetime.datetime.now(), in seconds
    _last_update_datetime,  \* << >> for None, <<t>> otherwise
    _latest,                \* the cached list
    last_call,              \* the last get_latest(): whether it fetched, what it returned
    history                 \* the fetches so far: the list and time of the last successful
                            \* one, the time of the last one, their number

run_vars == <<latest_downloadables, wanted_dict, run_pc, w_idx, pending, downloads>>

parse_vars == <<item, parser, parse_pc, parsed, probe>>

feeder_vars == <<now, _last_update_datetime, _latest, last_call, history>>

vars == <<run_vars, parse_vars, feeder_vars>>

(***************************************************************************)
(* Bounds                                                                  *)
(***************************************************************************)
MaxReleases == 3
MaxEnclosures == 2
MaxTime == 1900
MaxFetchSecs == 1

(***************************************************************************)
(* quality module (tvtumbler/quality.py): the qualities are ints, ordered  *)
(* UNKNOWN < SD < HD720p < HD1080p                                         *)
(***************************************************************************)
UNKNOWN_QUALITY == 0
HD720P_COMP == 2
HD1080P_COMP == 3

\* Python's max() over a non-empty collection of ints
Max(S) == CHOOSE x \in S : \A y \in S : y <= x

Min(S) == CHOOSE x \in S : \A y \in S : x <= y

Range(s) == {s[i] : i \in DOMAIN s}

(***************************************************************************)
(* The parts at rest: a run not started, no parser call in progress, an    *)
(* adapter as __init__ leaves it                                           *)
(***************************************************************************)
RunIdle ==
    /\ latest_downloadables = << >>
    /\ wanted_dict = << >>
    /\ run_pc = "idle"
    /\ w_idx = 1
    /\ pending = {}
    /\ downloads = << >>

NoProbe == [entry |-> << >>, collected |-> << >>, urls |-> << >>, generic |-> << >>]

ParseIdle ==
    /\ item = << >>
    /\ parser = "none"
    /\ parse_pc = "idle"
    /\ parsed = << >>
    /\ probe = NoProbe

NoCall == [kind |-> "none", returned |-> << >>, at |-> 0]

NoHistory == [good |-> << >>, good_at |-> << >>, fetch_at |-> << >>, fetches |-> 0]

\* lines 22-34: __init__
FeederIdle ==
    /\ now = 0
    /\ _last_update_datetime = << >>
    /\ _latest = << >>
    /\ last_call = NoCall
    /\ history = NoHistory

(***************************************************************************)
(* Strings are sequences of characters; an attribute that may be missing   *)
(* is << >> when missing and <<value>> when present.                       *)
(***************************************************************************)
Absent == << >>
Some(v) == <<v>>

\* str.startswith
StartsWith(s, p) == Len(s) >= Len(p) /\ SubSeq(s, 1, Len(p)) = p

\* str.endswith
EndsWith(s, p) == Len(s) >= Len(p) /\ SubSeq(s, Len(s) - Len(p) + 1, Len(s)) = p

\* p in s
Contains(s, p) == \E i \in 1..(Len(s) - Len(p) + 1) : SubSeq(s, i, i + Len(p) - 1) = p

\* 'magnet:'
MAGNET_SCHEME == <<"m", "a", "g", "n", "e", "t", ":">>
\* '.torrent'
TORRENT_EXT == <<".", "t", "o", "r", "r", "e", "n", "t">>
\* 'magnet:?xt=urn:btih:'
BTIH_MAGNET == <<"m", "a", "g", "n", "e", "t", ":", "?", "x", "t", "=",
                 "u", "r", "n", ":", "b", "t", "i", "h", ":">>
\* 'HD 720p: '
HD_MARKER == <<"H", "D", " ", "7", "2", "0", "p", ":", " ">>
BITTORRENT_MIME == "application/x-bittorrent"

(***************************************************************************)
(* names.SceneNameParser (tvtumbler/names.py). A scene name is the show's  *)
(* name, a season/episode marker and then the release tags. The parse is   *)
(* known when the marker is there and the text before it names a show; the *)
(* quality is read from the tags and is UNKNOWN_QUALITY when no tag names  *)
(* one.                                                                    *)
(***************************************************************************)
EPISODE_TOKEN == <<"S", "1", "E", "1">>
TOKEN_720P == <<"7", "2", "0", "p">>
TOKEN_1080P == <<"1", "0", "8", "0", "p">>
\* 'X '
SHOW_NAME == <<"X", " ">>

\* the positions at which p occurs in s
Occurrences(s, p) ==
    {i \in 1..(Len(s) - Len(p) + 1) : SubSeq(s, i, i + Len(p) - 1) = p}

SceneNameParser(parse_name, has_ext) ==
    LET unknown == [is_known |-> FALSE, episodes |-> << >>, quality |-> UNKNOWN_QUALITY]
    IN  IF parse_name = Absent THEN unknown
        ELSE LET name == parse_name[1]
                 at   == Occurrences(name, EPISODE_TOKEN)
             IN  IF at = {} THEN unknown
                 ELSE LET show == SubSeq(name, 1, Min(at) - 1)
                          tags == SubSeq(name, Min(at) + Len(EPISODE_TOKEN), Len(name))
                      IN  IF show # SHOW_NAME THEN unknown
                          ELSE [is_known |-> TRUE,
                                episodes |-> << [tvdb_id |-> 42,
                                                 tvdb_episodes |-> << <<1, 1>> >>] >>,
                                quality  |-> IF Contains(tags, TOKEN_1080P) THEN HD1080P_COMP
                                             ELSE IF Contains(tags, TOKEN_720P) THEN HD720P_COMP
                                             ELSE UNKNOWN_QUALITY]

(***************************************************************************)
(* TorrentFeeder._parse_rss_item                                           *)
(***************************************************************************)

\* lines 127-132: the magnet field, kept when it is present and truthy
MagnetFieldUrls(it) ==
    IF it.magneturi # Absent /\ it.magneturi[1] # << >> THEN <<it.magneturi[1]>> ELSE << >>

\* lines 135-139: the loop over item.enclosures. enc.type on an enclosure
\* without a type raises AttributeError; so does enc.href.endwidth, which is
\* reached when neither of the first two tests holds (str has no attribute
\* endwidth). Either ends the loop: the except clause of line 140 is outside
\* it. What was appended before stays in urls.
RECURSIVE EnclosureLoop(_)
EnclosureLoop(encs) ==
    IF encs = << >> THEN << >>
    ELSE LET enc == Head(encs) IN
         IF enc.type = Absent THEN << >>
         ELSE IF \/ enc.type[1] = BITTORRENT_MIME
                 \/ StartsWith(enc.href, MAGNET_SCHEME)
              THEN <<enc.href>> \o EnclosureLoop(Tail(encs))
              ELSE << >>

\* lines 134-141
EnclosureUrls(it) ==
    IF it.enclosures = Absent THEN << >> ELSE EnclosureLoop(it.enclosures[1])

\* lines 144-146
RECURSIVE LinkLoop(_)
LinkLoop(links) ==
    IF links = << >> THEN << >>
    ELSE LET link == Head(links) IN
         IF StartsWith(link.href, MAGNET_SCHEME) \/ EndsWith(link.href, TORRENT_EXT)
         THEN <<link.href>> \o LinkLoop(Tail(links))
         ELSE LinkLoop(Tail(links))

\* lines 143-148
LinkUrls(it) == IF it.links = Absent THEN << >> ELSE LinkLoop(it.links[1])

\* lines 116-148: urls as it stands before the info-hash step
CollectUrls(it) == MagnetFieldUrls(it) \o EnclosureUrls(it) \o LinkUrls(it)

IsMagnet(k) == StartsWith(k, MAGNET_SCHEME)

\* lines 163-165 without the "no magnet yet" test
MakesMagnet_Always(it, urls) ==
    /\ it.infohash # Absent
    /\ it.infohash[1] # << >>

\* lines 161-165: whether line 167 runs
MakesMagnet(it, urls) ==
    /\ it.infohash # Absent
    /\ it.infohash[1] # << >>
    /\ Len(SelectSeq(urls, IsMagnet)) = 0

\* lines 161-169
WithInfoHash(it, urls) ==
    IF MakesMagnet(it, urls) THEN Append(urls, BTIH_MAGNET \o it.infohash[1]) ELSE urls

RECURSIVE Orderings(_)
Orderings(S) ==
    IF S = {} THEN {<< >>}
    ELSE UNION {{<<x>> \o o : o \in Orderings(S \ {x})} : x \in S}

\* line 172: urls = list(set(urls)); the order of the result is the set's own,
\* so every ordering of the distinct URLs is a possible value
Dedup(urls) == Orderings(Range(urls))

\* line 174 with the test never holding
NoUsefulLinks_Never(urls) == FALSE

\* line 174: if len(urls) == 0
NoUsefulLinks(urls) == Len(urls) = 0

\* lines 174-199: None (<< >>) or the Torrent built from the deduplicated urls
Build(it, urls, cls, t) ==
    IF NoUsefulLinks(urls) THEN << >>
    ELSE LET fileName   == IF it.filename # Absent /\ it.filename[1] # << >>
                           THEN it.filename ELSE Absent
             parse_name == IF fileName # Absent THEN fileName ELSE it.title
             has_ext    == fileName # Absent
             nameparser == SceneNameParser(parse_name, has_ext)
         IN  IF ~nameparser.is_known THEN << >>
             ELSE << [urls      |-> urls,
                      episodes  |-> nameparser.episodes,
                      name      |-> it.title,
                      quality   |-> nameparser.quality,
                      timestamp |-> IF it.published_parsed = Absent THEN t
                                    ELSE it.published_parsed[1],
                      feeder    |-> cls] >>

\* lines 106-199: the values TorrentFeeder._parse_rss_item(item) can return
\* at time t, for a feeder of class cls
TorrentFeederParse(it, cls, t) ==
    {Build(it, urls, cls, t) : urls \in Dedup(WithInfoHash(it, CollectUrls(it)))}

(***************************************************************************)
(* ShowRSSFeeder._parse_rss_item                                           *)
(***************************************************************************)

\* line 28
HasMarker(it) == StartsWith(it.title[1], HD_MARKER)

\* line 29: item.title = item.title[9:]
StripMarker(it) ==
    IF HasMarker(it)
    THEN [it EXCEPT !.title = Some(SubSeq(it.title[1], 10, Len(it.title[1])))]
    ELSE it

\* lines 34-35 without the UNKNOWN_QUALITY test
Override_Always(it, torrent) ==
    IF torrent # << >> /\ HasMarker(it)
    THEN << [torrent[1] EXCEPT !.quality = HD720P_COMP] >>
    ELSE torrent

\* lines 28-36 after the super() call: known_quality is HD720P_COMP when the
\* marker was there and False otherwise
Override(it, torrent) ==
    LET known_quality == IF HasMarker(it) THEN HD720P_COMP ELSE 0
    IN  IF torrent # << >> /\ torrent[1].quality = UNKNOWN_QUALITY /\ known_quality # 0
        THEN << [torrent[1] EXCEPT !.quality = known_quality] >>
        ELSE torrent

\* lines 21-36: the values ShowRSSFeeder._parse_rss_item(item) can return; the
\* entry has a title (item.title raises AttributeError otherwise)
ShowRSSFeederParse(it, cls, t) ==
    {Override(it, torrent) : torrent \in TorrentFeederParse(StripMarker(it), cls, t)}

\* self._parse_rss_item(entry), by the class of self
ParseRssItem(it, cls, t) ==
    IF cls = "ShowRSSFeeder" THEN ShowRSSFeederParse(it, cls, t)
    ELSE TorrentFeederParse(it, cls, t)

(***************************************************************************)
(* Feed entries                                                            *)
(***************************************************************************)
\* 'h/a.torrent', 'magnet:?a', 'h/a.mp4', 'h/a'
URL_TORRENT == <<"h", "/", "a">> \o TORRENT_EXT
URL_MAGNET == MAGNET_SCHEME \o <<"?", "a">>
URL_VIDEO == <<"h", "/", "a", ".", "m", "p", "4">>
URL_PAGE == <<"h", "/", "a">>

Enclosures ==
    { [type |-> Some(BITTORRENT_MIME), href |-> URL_PAGE],
      [type |-> Some("video/mp4"), href |-> URL_TORRENT],
      [type |-> Some("video/mp4"), href |-> URL_MAGNET],
      [type |-> Some("video/mp4"), href |-> URL_VIDEO] }

SeqsUpTo(S, n) == UNION {[1..k -> S] : k \in 0..n}

EnclosureLists == {Absent} \cup {Some(e) : e \in SeqsUpTo(Enclosures, MaxEnclosures)}

LinkLists ==
    { Absent, Some(<< >>), Some(<< [href |-> URL_TORRENT] >>),
      Some(<< [href |-> URL_VIDEO], [href |-> URL_MAGNET] >>) }

MagnetFields == {Absent, Some(<< >>), Some(URL_MAGNET)}

InfoHashes == {Absent, Some(<< >>), Some(<<"a", "b">>)}

\* 'X S1E1', 'X S1E1 1080p', 'Y'
TITLE_PLAIN == SHOW_NAME \o EPISODE_TOKEN
TITLE_1080P == SHOW_NAME \o EPISODE_TOKEN \o <<" ">> \o TOKEN_1080P
TITLE_JUNK == <<"Y">>

Titles ==
    {Absent} \cup {Some(t) : t \in {TITLE_PLAIN, TITLE_1080P, TITLE_JUNK}}
             \cup {Some(HD_MARKER \o t) : t \in {TITLE_PLAIN, TITLE_1080P, TITLE_JUNK}}

\* 'X S1E1.720p.mkv'
FILE_720P == SHOW_NAME \o EPISODE_TOKEN \o <<".">> \o TOKEN_720P \o <<".", "m", "k", "v">>

Filenames == {Absent, Some(FILE_720P)}

Published == {Absent, Some(5)}

Items ==
    [filename : Filenames, magneturi : MagnetFields, enclosures : EnclosureLists,
     links : LinkLists, title : Titles, published_parsed : Published,
     infohash : InfoHashes]

(***************************************************************************)
(* One call of _parse_rss_item on one entry                                *)
(***************************************************************************)
\* TorrentFeeder._parse_rss_item(item), lines 106-199
TorrentFeeder_parse_rss_item ==
    /\ parse_pc = "call"
    /\ parser = "TorrentFeeder"
    /\ \E urls \in Dedup(WithInfoHash(item, CollectUrls(item))) :
          /\ parsed' = Build(item, urls, parser, now)
          /\ probe' = [entry |-> item, collected |-> CollectUrls(item), urls |-> urls,
                       generic |-> Build(item, urls, parser, now)]
    /\ parse_pc' = "returned"
    /\ UNCHANGED <<item, parser, run_vars, feeder_vars>>

\* ShowRSSFeeder._parse_rss_item(item), lines 21-36; line 29 assigns to the
\* entry's title
ShowRSSFeeder_parse_rss_item ==
    /\ parse_pc = "call"
    /\ parser = "ShowRSSFeeder"
    /\ item.title # Absent
    /\ item' = StripMarker(item)
    /\ \E urls \in Dedup(WithInfoHash(item', CollectUrls(item'))) :
          LET torrent == Build(item', urls, parser, now) IN
          /\ parsed' = Override(item, torrent)
          /\ probe' = [entry |-> item, collected |-> CollectUrls(item'), urls |-> urls,
                       generic |-> torrent]
    /\ parse_pc' = "returned"
    /\ UNCHANGED <<parser, run_vars, feeder_vars>>

\* ShowRSSFeeder._parse_rss_item(item) on an entry without a title: line 28
\* raises AttributeError
ShowRSSFeeder_parse_rss_item_raises ==
    /\ parse_pc = "call"
    /\ parser = "ShowRSSFeeder"
    /\ item.title = Absent
    /\ parse_pc' = "raised"
    /\ UNCHANGED <<item, parser, parsed, probe, run_vars, feeder_vars>>

ParseInit ==
    /\ RunIdle
    /\ FeederIdle
    /\ item \in Items
    /\ parser \in {"TorrentFeeder", "ShowRSSFeeder"}
    /\ parse_pc = "call"
    /\ parsed = << >>
    /\ probe = NoProbe

ParseNext ==
    \/ TorrentFeeder_parse_rss_item
    \/ ShowRSSFeeder_parse_rss_item
    \/ ShowRSSFeeder_parse_rss_item_raises

ParseSpec == ParseInit /\ [][ParseNext]_vars

(***************************************************************************)
(* BaseFeeder: get_latest and _update, for a ShowRSSFeeder instance        *)
(***************************************************************************)
\* line 25: self.min_update_freq_secs = 15 * 60
min_update_freq_secs == 900

\* how far the clock moves between two events
ClockSteps == {450, 451}

\* the entries the feed at rss_url serves
ENTRY_A ==
    [filename |-> Absent, magneturi |-> Absent,
     enclosures |-> Some(<< [type |-> Some(BITTORRENT_MIME), href |-> URL_PAGE] >>),
     links |-> Absent, title |-> Some(TITLE_PLAIN), published_parsed |-> Some(5),
     infohash |-> Absent]

ENTRY_B ==
    [filename |-> Absent, magneturi |-> Absent, enclosures |-> Some(<< >>),
     links |-> Some(<< [href |-> URL_TORRENT] >>), title |-> Some(HD_MARKER \o TITLE_PLAIN),
     published_parsed |-> Some(5), infohash |-> Some(<<"a", "b">>)]

ENTRY_C ==
    [filename |-> Absent, magneturi |-> Absent, enclosures |-> Absent,
     links |-> Absent, title |-> Some(TITLE_1080P), published_parsed |-> Some(5),
     infohash |-> Absent]

\* what feedparser.parse(self.rss_url) returns: << >> for a falsy result,
\* <<entries>> for a feed
Feeds ==
    { << >>, Some(<< >>), Some(<<ENTRY_A>>), Some(<<ENTRY_C, ENTRY_B, ENTRY_A>>) }

\* lines 70-72 with <= in place of <
IsDue_OrEqual(last, t) ==
    IF last = << >> THEN TRUE ELSE last[1] + min_update_freq_secs <= t

\* lines 70-72: the test of get_latest
IsDue(last, t) ==
    IF last = << >> THEN TRUE ELSE last[1] + min_update_freq_secs < t

\* lines 85-88: the lists the loop over feed.entries can build
RECURSIVE ParseEntries(_, _, _)
ParseEntries(entries, cls, t) ==
    IF entries = << >> THEN {<< >>}
    ELSE {i \o rest : i \in ParseRssItem(Head(entries), cls, t),
                      rest \in ParseEntries(Tail(entries), cls, t)}

\* lines 82-90: the values of self._latest _update can leave
UpdatedLatest(feed, cls, t) ==
    IF feed # << >> THEN ParseEntries(feed[1], cls, t) ELSE {<< >>}

\* time passes between two calls
Tick ==
    /\ \E d \in ClockSteps :
          /\ now + d <= MaxTime
          /\ now' = now + d
    /\ UNCHANGED <<_last_update_datetime, _latest, last_call, history, run_vars, parse_vars>>

\* get_latest() when the test of lines 70-72 holds: _update() runs (lines
\* 77-90), the fetch taking d seconds, and self._latest is returned
GetLatest_Update ==
    /\ IsDue(_last_update_datetime, now)
    /\ \E feed \in Feeds, d \in 0..MaxFetchSecs :
          /\ now + d <= MaxTime
          /\ now' = now + d
          /\ _last_update_datetime' = Some(now')
          /\ _latest' \in UpdatedLatest(feed, "ShowRSSFeeder", now')
          /\ last_call' = [kind |-> IF feed # << >> THEN "fetched" ELSE "failed",
                           returned |-> _latest', at |-> now]
          /\ history' = [good     |-> IF feed # << >> THEN _latest' ELSE history.good,
                         good_at  |-> IF feed # << >> THEN Some(now') ELSE history.good_at,
                         fetch_at |-> Some(now'),
                         fetches  |-> history.fetches + 1]
    /\ UNCHANGED <<run_vars, parse_vars>>

\* get_latest() when the test of lines 70-72 fails: line 75 alone runs
GetLatest_Cached ==
    /\ ~IsDue(_last_update_datetime, now)
    /\ last_call' = [kind |-> "cached", returned |-> _latest, at |-> now]
    /\ UNCHANGED <<now, _last_update_datetime, _latest, history, run_vars, parse_vars>>

FeederInit == RunIdle /\ ParseIdle /\ FeederIdle

FeederNext == Tick \/ GetLatest_Update \/ GetLatest_Cached

FeederSpec == FeederInit /\ [][FeederNext]_vars

(***************************************************************************)
(* feeder.run                                                              *)
(***************************************************************************)

\* w.episodes as the run reads it: a list of episodes, each with
\* ep.tvshow.tvdb_id and the list ep.tvdb_episodes of (season, episode)
EpisodeLists ==
    { << [tvdb_id |-> 42, tvdb_episodes |-> << <<1, 1>> >>] >>,
      << [tvdb_id |-> 42, tvdb_episodes |-> << <<1, 1>>, <<1, 2>> >>] >>,
      << [tvdb_id |-> 42, tvdb_episodes |-> << <<1, 2>> >>],
         [tvdb_id |-> 43, tvdb_episodes |-> << <<1, 1>> >>] >> }

RunQualities == {UNKNOWN_QUALITY, HD720P_COMP, HD1080P_COMP}

\* The fields of a Downloadable the run reads; id stands for object identity
\* and is the element's position in latest_downloadables.
\* The unwanted releases are offered at the best quality, where one
\* taken by mistake would win.
DownloadableFields ==
    {f \in [is_wanted : BOOLEAN, quality : RunQualities, episodes : EpisodeLists] :
        f.is_wanted \/ f.quality = HD1080P_COMP}

MkDownloadable(i, f) ==
    [id |-> i, is_wanted |-> f.is_wanted, quality |-> f.quality, episodes |-> f.episodes]

\* line 22: wanted = [s for s in latest_downloadables if s.is_wanted]
Wanted_NoFilter(list) == list

IsWanted(s) == s.is_wanted

Wanted(list) == SelectSeq(list, IsWanted)

\* lines 30-33: the keys (tvdb_id, season, episode) of one release, in loop order
RECURSIVE KeysOfEpisode(_, _)
KeysOfEpisode(tvdb_id, tvdb_episodes) ==
    IF tvdb_episodes = << >> THEN << >>
    ELSE << <<tvdb_id, Head(tvdb_episodes)[1], Head(tvdb_episodes)[2]>> >>
         \o KeysOfEpisode(tvdb_id, Tail(tvdb_episodes))

RECURSIVE KeysOf(_)
KeysOf(episodes) ==
    IF episodes = << >> THEN << >>
    ELSE KeysOfEpisode(Head(episodes).tvdb_id, Head(episodes).tvdb_episodes)
         \o KeysOf(Tail(episodes))

\* lines 34-37 with the "if not qual in wanted_dict[key]" test dropped
Record_Overwrite(wd, key, qual, w) ==
    LET inner == IF key \in DOMAIN wd THEN wd[key] ELSE << >>
        inner2 == [q \in DOMAIN inner \cup {qual} |-> IF q = qual THEN w ELSE inner[q]]
    IN  [k \in DOMAIN wd \cup {key} |-> IF k = key THEN inner2 ELSE wd[k]]

\* lines 34-37: record w under wanted_dict[key][qual] unless that slot is taken
Record(wd, key, qual, w) ==
    LET inner == IF key \in DOMAIN wd THEN wd[key] ELSE << >>
        inner2 == IF qual \in DOMAIN inner THEN inner
                  ELSE [q \in DOMAIN inner \cup {qual} |-> IF q = qual THEN w ELSE inner[q]]
    IN  [k \in DOMAIN wd \cup {key} |-> IF k = key THEN inner2 ELSE wd[k]]

\* lines 29-37: the body of "for w in wanted" for one w
RECURSIVE IndexKeys(_, _, _, _)
IndexKeys(wd, keys, qual, w) ==
    IF keys = << >> THEN wd
    ELSE IndexKeys(Record(wd, Head(keys), qual, w), Tail(keys), qual, w)

\* lines 40-45 with min() in place of max()
UseDlable_Min(dlables) ==
    LET qualities == DOMAIN dlables
        known_qualities == {q \in qualities : q # UNKNOWN_QUALITY}
    IN  IF known_qualities # {} THEN dlables[Min(known_qualities)]
        ELSE dlables[UNKNOWN_QUALITY]

\* lines 40-45: the release chosen for one key
UseDlable(dlables) ==
    LET qualities == DOMAIN dlables
        known_qualities == {q \in qualities : q # UNKNOWN_QUALITY}
    IN  IF known_qualities # {} THEN dlables[Max(known_qualities)]
        ELSE dlables[UNKNOWN_QUALITY]

RunInit ==
    /\ ParseIdle
    /\ FeederIdle
    /\ \E n \in 0..MaxReleases :
         \E f \in [1..n -> DownloadableFields] :
            latest_downloadables = [i \in 1..n |-> MkDownloadable(i, f[i])]
    /\ wanted_dict = << >>
    /\ run_pc = "index"
    /\ w_idx = 1
    /\ pending = {}
    /\ downloads = << >>

\* one iteration of "for w in wanted" (lines 28-37)
IndexRelease ==
    /\ run_pc = "index"
    /\ w_idx <= Len(Wanted(latest_downloadables))
    /\ LET w == Wanted(latest_downloadables)[w_idx]
       IN  wanted_dict' = IndexKeys(wanted_dict, KeysOf(w.episodes), w.quality, w)
    /\ w_idx' = w_idx + 1
    /\ UNCHANGED <<latest_downloadables, run_pc, pending, downloads, parse_vars, feeder_vars>>

\* the first loop is exhausted; wanted_dict.iteritems() starts (line 39)
StartDispatch ==
    /\ run_pc = "index"
    /\ w_idx > Len(Wanted(latest_downloadables))
    /\ run_pc' = "dispatch"
    /\ pending' = DOMAIN wanted_dict
    /\ UNCHANGED <<latest_downloadables, wanted_dict, w_idx, downloads, parse_vars, feeder_vars>>

\* one iteration of the dispatch loop (lines 39-46); a dict yields its keys
\* in an order the program does not control
Dispatch ==
    /\ run_pc = "dispatch"
    /\ \E key \in pending :
         /\ downloads' = Append(downloads,
                                [key |-> key, dlable |-> UseDlable(wanted_dict[key])])
         /\ pending' = pending \ {key}
    /\ UNCHANGED <<latest_downloadables, wanted_dict, run_pc, w_idx, parse_vars, feeder_vars>>

\* the dispatch loop is exhausted and run returns
FinishRun ==
    /\ run_pc = "dispatch"
    /\ pending = {}
    /\ run_pc' = "done"
    /\ UNCHANGED <<latest_downloadables, wanted_dict, w_idx, pending, downloads, parse_vars, feeder_vars>>

RunNext == IndexRelease \/ StartDispatch \/ Dispatch \/ FinishRun

RunSpec == RunInit /\ [][RunNext]_vars

(***************************************************************************)
(* Properties of the resolution run                                        *)
(***************************************************************************)
AllKeys == UNION {Range(KeysOf(e)) : e \in EpisodeLists}

\* positions of the wanted releases that reference EpisodeRef k
WantedRefs(k) ==
    {i \in DOMAIN latest_downloadables :
        /\ latest_downloadables[i].is_wanted
        /\ k \in Range(KeysOf(latest_downloadables[i].episodes))}

\* the known qualities on offer for EpisodeRef k
KnownOffered(k) ==
    {latest_downloadables[i].quality : i \in WantedRefs(k)} \ {UNKNOWN_QUALITY}

\* the quality that wins EpisodeRef k
WinningQuality(k) ==
    IF KnownOffered(k) # {} THEN Max(KnownOffered(k)) ELSE UNKNOWN_QUALITY

CallsFor(k) == {j \in DOMAIN downloads : downloads[j].key = k}

\* C1: when the run has finished, every EpisodeRef referenced by a wanted
\* release has a dispatched release; that release is a wanted release of the
\* input that references the EpisodeRef; its quality is the maximum of the
\* known qualities on offer for the EpisodeRef, and when every offer is
\* UNKNOWN_QUALITY it is the first offer in priority order.
C1_BestQualityWins ==
    run_pc = "done" =>
        \A k \in AllKeys :
            WantedRefs(k) # {} =>
                /\ CallsFor(k) # {}
                /\ \A j \in CallsFor(k) :
                      LET d == downloads[j].dlable IN
                      /\ d.id \in WantedRefs(k)
                      /\ latest_downloadables[d.id] = d
                      /\ KnownOffered(k) # {} => d.quality = Max(KnownOffered(k))
                      /\ KnownOffered(k) = {} => d.id = Min(WantedRefs(k))

\* C1 witness: a finished run in which a lower-priority HD1080P release beat
\* a higher-priority HD720P release, and another EpisodeRef, offered at
\* UNKNOWN_QUALITY only, was dispatched as well.
C1_Witness ==
    /\ run_pc = "done"
    /\ \E k \in AllKeys : \E i, j \in WantedRefs(k) :
          /\ i < j
          /\ latest_downloadables[i].quality = HD720P_COMP
          /\ latest_downloadables[j].quality = HD1080P_COMP
          /\ \E c \in CallsFor(k) : downloads[c].dlable.id = j
    /\ \E k \in AllKeys : \E i \in WantedRefs(k) :
          /\ KnownOffered(k) = {}
          /\ \E c \in CallsFor(k) : downloads[c].dlable.id = i

\* positions of the wanted releases that reference k at quality q
RefsAt(k, q) == {i \in WantedRefs(k) : latest_downloadables[i].quality = q}

\* C2 (state part): whenever the run has finished, the release dispatched
\* for an EpisodeRef is the earliest, in priority order, of the wanted
\* releases that reference it at the winning quality.
C2_EarliestAtWinningQuality ==
    run_pc = "done" =>
        \A k \in AllKeys : \A j \in CallsFor(k) :
            downloads[j].dlable.id = Min(RefsAt(k, WinningQuality(k)))

\* C2 (step part): no step of the run replaces or removes an already
\* recorded (EpisodeRef, Quality) entry of the index.
C2_NeverReplaced ==
    \A k \in DOMAIN wanted_dict : \A q \in DOMAIN wanted_dict[k] :
        /\ k \in DOMAIN wanted_dict'
        /\ q \in DOMAIN wanted_dict'[k]
        /\ wanted_dict'[k][q] = wanted_dict[k][q]

\* C2: tie-break. Of two wanted releases with the same EpisodeRef and the
\* same quality, that quality being the winning one, the earlier in priority
\* order is the one dispatched, and a later release never replaces an entry
\* already recorded for an (EpisodeRef, Quality) pair.
C2_TieBreak == [] C2_EarliestAtWinningQuality /\ [][C2_NeverReplaced]_vars

\* C2 witness: a finished run with two wanted releases of the same EpisodeRef
\* and the same winning quality, the earlier one dispatched.
C2_Witness ==
    /\ run_pc = "done"
    /\ \E k \in AllKeys : \E i, j \in RefsAt(k, WinningQuality(k)) :
          /\ i < j
          /\ WinningQuality(k) # UNKNOWN_QUALITY
          /\ \E c \in CallsFor(k) : downloads[c].dlable.id = i

\* C3: the dispatcher is never called for an EpisodeRef no wanted release
\* references and never more than once for any EpisodeRef, and when the run
\* has finished it has been called exactly once for every EpisodeRef some
\* wanted release references; so the number of calls equals the number of
\* such EpisodeRefs, a release winning N of them being dispatched N times.
C3_OncePerEpisodeRef ==
    /\ \A k \in AllKeys :
          /\ Cardinality(CallsFor(k)) <= 1
          /\ WantedRefs(k) = {} => CallsFor(k) = {}
    /\ \A j \in DOMAIN downloads : downloads[j].key \in AllKeys
    /\ run_pc = "done" =>
          /\ \A k \in AllKeys : WantedRefs(k) # {} => Cardinality(CallsFor(k)) = 1
          /\ Len(downloads) = Cardinality({k \in AllKeys : WantedRefs(k) # {}})

\* C3 witness: a finished run in which one release was dispatched twice, once
\* for each of two EpisodeRefs, and an EpisodeRef referenced only by an
\* unwanted release was not dispatched.
C3_Witness ==
    /\ run_pc = "done"
    /\ \E a, b \in DOMAIN downloads :
          /\ a # b
          /\ downloads[a].dlable.id = downloads[b].dlable.id
          /\ downloads[a].key # downloads[b].key
    /\ \E k \in AllKeys :
          /\ CallsFor(k) = {}
          /\ \E i \in DOMAIN latest_downloadables :
                k \in Range(KeysOf(latest_downloadables[i].episodes))

(***************************************************************************)
(* Properties of the entry parsers                                         *)
(***************************************************************************)
HasInfoHash(e) == e.infohash # Absent /\ e.infohash[1] # << >>

\* an enclosure or link the specification counts as a retrieval URL
MatchingEnclosure(enc) ==
    \/ (enc.type # Absent /\ enc.type[1] = BITTORRENT_MIME)
    \/ EndsWith(enc.href, TORRENT_EXT)
    \/ StartsWith(enc.href, MAGNET_SCHEME)

MatchingLink(link) ==
    EndsWith(link.href, TORRENT_EXT) \/ StartsWith(link.href, MAGNET_SCHEME)

\* the entry's URL union as the specification defines it: the magnet field,
\* the matching enclosures, the matching links, the info-hash magnet
UrlUnion(e) ==
    (IF e.magneturi # Absent /\ e.magneturi[1] # << >> THEN {e.magneturi[1]} ELSE {})
    \cup (IF e.enclosures = Absent THEN {}
          ELSE {enc.href : enc \in {x \in Range(e.enclosures[1]) : MatchingEnclosure(x)}})
    \cup (IF e.links = Absent THEN {}
          ELSE {l.href : l \in {x \in Range(e.links[1]) : MatchingLink(x)}})
    \cup (IF HasInfoHash(e) THEN {BTIH_MAGNET \o e.infohash[1]} ELSE {})

\* C6: a Release returned by _parse_rss_item has at least one retrieval URL
\* and no URL twice, and an entry whose URL union is empty yields None,
\* whatever its title or filename.
C6_UrlsNonEmpty ==
    parse_pc = "returned" =>
        /\ parsed # << >> =>
              /\ Len(parsed[1].urls) > 0
              /\ \A i, j \in DOMAIN parsed[1].urls :
                    i # j => parsed[1].urls[i] # parsed[1].urls[j]
        /\ UrlUnion(probe.entry) = {} => parsed = << >>

\* C6 witness: an entry with a parsable title and no URL of any kind was
\* parsed, and the parser returned None.
C6_Witness ==
    /\ parse_pc = "returned"
    /\ probe.entry.title = Some(TITLE_PLAIN)
    /\ UrlUnion(probe.entry) = {}
    /\ parsed = << >>

\* C7: every enclosure of the entry whose type is application/x-bittorrent,
\* or whose link ends in .torrent or starts with magnet:, has its link among
\* the collected URLs, wherever it stands in the enclosure list.
C7_MatchingEnclosuresCollected ==
    parse_pc = "returned" =>
        (probe.entry.enclosures # Absent =>
            \A i \in DOMAIN probe.entry.enclosures[1] :
                MatchingEnclosure(probe.entry.enclosures[1][i]) =>
                    probe.entry.enclosures[1][i].href \in Range(probe.collected))

\* C8: the URLs after the info-hash step are the URLs collected from the
\* magnet field, the enclosures and the links, plus the magnet made from the
\* info-hash exactly when the info-hash is non-empty and none of the
\* collected URLs starts with magnet:; an entry with nothing but an info-hash
\* ends with that one magnet, and a Release carries exactly these URLs.
C8_InfoHashMagnet ==
    parse_pc = "returned" =>
        LET e     == probe.entry
            fed   == Range(probe.collected)
            alone == \A u \in fed : ~StartsWith(u, MAGNET_SCHEME)
        IN  /\ Range(probe.urls) =
                  IF HasInfoHash(e) /\ alone
                  THEN fed \cup {BTIH_MAGNET \o e.infohash[1]} ELSE fed
            /\ (HasInfoHash(e) /\ ~alone) =>
                  \A u \in Range(probe.urls) : StartsWith(u, MAGNET_SCHEME) => u \in fed
            /\ ( /\ HasInfoHash(e)
                 /\ e.magneturi = Absent
                 /\ e.enclosures = Absent
                 /\ e.links = Absent ) =>
                  probe.urls = << BTIH_MAGNET \o e.infohash[1] >>
            /\ parsed # << >> => parsed[1].urls = probe.urls

\* C8 witness: an entry with an info-hash and no magnet field, enclosures or
\* links was parsed into a Release whose only URL is the synthesized magnet.
C8_Witness ==
    /\ parse_pc = "returned"
    /\ HasInfoHash(probe.entry)
    /\ probe.entry.magneturi = Absent
    /\ probe.entry.enclosures = Absent
    /\ probe.entry.links = Absent
    /\ parsed # << >>
    /\ parsed[1].urls = << BTIH_MAGNET \o probe.entry.infohash[1] >>

\* the entry with the 9 characters of the marker cut from its title
WithoutMarker(e) ==
    [e EXCEPT !.title = Some(SubSeq(e.title[1], Len(HD_MARKER) + 1, Len(e.title[1])))]

\* C9: ShowRSSFeeder hands TorrentFeeder's parser the entry with the marker
\* cut from its title (the entry itself when there is no marker), returns
\* None exactly when that parse does, and returns that parse's Release with
\* the quality replaced by HD720P_COMP only when that quality is
\* UNKNOWN_QUALITY and the marker was there; otherwise the quality is the
\* generic parse's.
C9_OverrideOnlyUnknown ==
    (parse_pc = "returned" /\ parser = "ShowRSSFeeder") =>
        LET e      == probe.entry
            marker == StartsWith(e.title[1], HD_MARKER)
            g      == probe.generic
        IN  /\ item = (IF marker THEN WithoutMarker(e) ELSE e)
            /\ g \in TorrentFeederParse(IF marker THEN WithoutMarker(e) ELSE e, parser, now)
            /\ (parsed = << >>) <=> (g = << >>)
            /\ parsed # << >> =>
                  /\ parsed[1].quality =
                        IF g[1].quality = UNKNOWN_QUALITY /\ marker
                        THEN HD720P_COMP ELSE g[1].quality
                  /\ [parsed[1] EXCEPT !.quality = g[1].quality] = g[1]

\* C9 witness: an entry with the marker whose generic parse found HD1080P was
\* parsed by ShowRSSFeeder and kept HD1080P.
C9_Witness ==
    /\ parse_pc = "returned"
    /\ parser = "ShowRSSFeeder"
    /\ StartsWith(probe.entry.title[1], HD_MARKER)
    /\ parsed # << >>
    /\ probe.generic[1].quality = HD1080P_COMP
    /\ parsed[1].quality = HD1080P_COMP

(***************************************************************************)
(* Properties of the adapter's refresh                                     *)
(***************************************************************************)

\* C4: after a get_latest() whose fetch failed, the value returned and the
\* cache are the list of the last successful fetch.
C4_StaleButAvailable ==
    last_call.kind = "failed" =>
        /\ last_call.returned = history.good
        /\ _latest = history.good

\* the adapter has made no fetch yet, or more than min_update_freq_secs have
\* passed since its last successful fetch
StaleSinceLastSuccess ==
    \/ history.fetches = 0
    \/ (IF history.good_at = << >> THEN FALSE
        ELSE now - history.good_at[1] > min_update_freq_secs)

\* C5: once a fetch has succeeded, and before any fetch is made, the adapter
\* is due exactly when no fetch has occurred or more than
\* min_update_freq_secs have passed since the last successful fetch.
C5_DueSinceLastSuccess ==
    (history.fetches = 0 \/ history.good_at # << >>) =>
        (IsDue(_last_update_datetime, now) <=> StaleSinceLastSuccess)

\* a fetch has been made and no more than min_update_freq_secs have passed
\* since it ended
RecentlyFetched ==
    IF history.fetch_at = << >> THEN FALSE
    ELSE now - history.fetch_at[1] <= min_update_freq_secs

\* C10 (calls): a get_latest() made while the adapter is not due fetches
\* nothing, leaves the cache and the timestamp as they are and returns the
\* cache.
C10_CachedCall ==
    (last_call' # last_call /\ RecentlyFetched) =>
        /\ history' = history
        /\ _latest' = _latest
        /\ _last_update_datetime' = _last_update_datetime
        /\ last_call'.kind = "cached"
        /\ last_call'.returned = _latest

\* C10 (fetches): a fetch that follows another starts more than
\* min_update_freq_secs after that one ended.
C10_FetchGap ==
    (history'.fetches # history.fetches /\ history.fetch_at # << >>) =>
        now > history.fetch_at[1] + min_update_freq_secs

\* C10: refresh rate limit. With the clock never going back, a call made
\* while the adapter is not due changes nothing and returns the cache, and
\* two consecutive fetches are more than min_update_freq_secs apart.
C10_RateLimit == [][C10_CachedCall /\ C10_FetchGap]_vars

\* C10 witness: after two fetches, a call made exactly min_update_freq_secs
\* after the second one was served from a non-empty cache.
C10_Witness ==
    /\ last_call.kind = "cached"
    /\ history.fetches >= 2
    /\ history.fetch_at # << >>
    /\ last_call.at = history.fetch_at[1] + min_update_freq_secs
    /\ last_call.returned # << >>

====
